---- MODULE Spec2Model ----
(***************************************************************************)
(* A model of the parser-combinator library in parsers.py.                 *)
(*                                                                         *)
(* Text is a sequence of characters.  A Result is a record tagged "ok"     *)
(* (value, remaining) or "err" (expected, actual).  A Python exception     *)
(* that escapes a call is the record tagged "raise": it is not a Result,   *)
(* it is what the caller sees instead of one, and every caller in the      *)
(* library lets it propagate.                                              *)
(*                                                                         *)
(* A Parser object is a tree that records how it was constructed: the      *)
(* decorated module-level functions are leaves, and every combinator       *)
(* method returns a node holding the closure's captured variables.         *)
(* Call(p, input) is Parser.__call__: it runs the closure the node stands  *)
(* for.  Python functions handed to the library (the argument of map, the  *)
(* lambdas and local functions of the combinators) are descriptors that    *)
(* Apply interprets.                                                       *)
(***************************************************************************)
EXTENDS Integers, Sequences, FiniteSets, TLC

VARIABLES
    parser,   \* the Parser object the session currently holds
    ref,      \* the ParserRef's attribute _p (Unset until the first set)
    op,       \* the last operation performed
    arg,      \* its argument
    input,    \* the text the session parses
    result,   \* what parser(input) produced (NoResult before it is invoked)
    exc,      \* the exception the last operation raised, "none" if none
    nops      \* combinator methods applied since the session took its first parser

vars == <<parser, ref, op, arg, input, result, exc, nops>>

---------------------------------------------------------------------------
(* Bounds of the model *)

\* longest input text
MaxLen == 3

\* most combinator methods a session applies
MaxOps == 1

---------------------------------------------------------------------------
(* Characters and text *)

Alphabet == {"a", "b", "1", "2", " "}

\* "sup2" stands for the one-character string U+00B2 (SUPERSCRIPT TWO)
WideAlphabet == Alphabet \cup {"sup2"}

\* the characters for which str.isdigit() is true: the ASCII decimal digits
\* and the other characters of Unicode's digit classes
isdigit(c) == c \in {"0", "1", "2", "3", "4", "5", "6", "7", "8", "9", "sup2"}

\* ord(c), the code point
ord(c) ==
    CASE c = "0" -> 48 [] c = "1" -> 49 [] c = "2" -> 50 [] c = "3" -> 51
      [] c = "4" -> 52 [] c = "5" -> 53 [] c = "6" -> 54 [] c = "7" -> 55
      [] c = "8" -> 56 [] c = "9" -> 57
      [] c = " " -> 32 [] c = "a" -> 97 [] c = "b" -> 98
      [] c = "sup2" -> 178

\* the argument of lstrip in skip_whitespace
WhitespaceChars == {" ", "\n", "\r", "\t"}

Texts == UNION {[1..n -> Alphabet] : n \in 0..MaxLen}

WideTexts == UNION {[1..n -> WideAlphabet] : n \in 0..MaxLen}

\* input[n:]
SliceFrom(text, n) == SubSeq(text, n + 1, Len(text))

\* input.startswith(prefix)
startswith(text, prefix) ==
    /\ Len(prefix) <= Len(text)
    /\ SubSeq(text, 1, Len(prefix)) = prefix

\* the characters of a text as one string, as an f-string renders it
RECURSIVE Str(_)
Str(text) == IF text = <<>> THEN "" ELSE Head(text) \o Str(Tail(text))

\* input.strip(chars): both ends stripped
RECURSIVE rstrip(_, _)
rstrip(text, chars) ==
    IF text # <<>> /\ text[Len(text)] \in chars
    THEN rstrip(SubSeq(text, 1, Len(text) - 1), chars)
    ELSE text

RECURSIVE lstrip_only(_, _)
lstrip_only(text, chars) ==
    IF text # <<>> /\ Head(text) \in chars THEN lstrip_only(Tail(text), chars) ELSE text

strip(text, chars) == rstrip(lstrip_only(text, chars), chars)

\* input.lstrip(chars)
RECURSIVE lstrip(_, _)
lstrip(text, chars) ==
    IF text # <<>> /\ Head(text) \in chars THEN lstrip(Tail(text), chars) ELSE text

IsSuffix(r, s) ==
    /\ Len(r) <= Len(s)
    /\ SubSeq(s, Len(s) - Len(r) + 1, Len(s)) = r

---------------------------------------------------------------------------
(* Values *)

\* the empty tuple ()
Unit == <<"unit">>

IntV(n) == <<"int", n>>

\* the tuple (v1, v2)
PairV(v1, v2) == <<"pair", v1, v2>>

---------------------------------------------------------------------------
(* class Result *)

Result_ok(value, remaining) ==
    [tag |-> "ok", value |-> value, remaining |-> remaining]

Result_err(expected, actual) ==
    [tag |-> "err", expected |-> expected, actual |-> actual]

\* an exception of class e leaves the call: no Result is returned
Raise(e) == [tag |-> "raise", exc |-> e]

is_ok(r) == r.tag = "ok"

is_err(r) == r.tag = "err"

raised(r) == r.tag = "raise"

\* t[0] taken where t[1] is meant
second_off_by_one(t) == t[2]

\* t[1] of a pair
second(t) == t[3]

\* t[0] of a pair
first(t) == t[2]

\* f(v) for the Python functions the library passes to Result.map:
\*   <<"fn", name>>       a function of the caller, left uninterpreted
\*   <<"const", v>>       lambda _: v             (Parser.retn)
\*   <<"pair_with", v1>>  lambda v2: (v1, v2)     (Parser.__mul__._step2)
\*   <<"_second">>, <<"_first">>  the projections of before and then
Apply(f, v) ==
    CASE f[1] = "fn" -> <<"app", f[2], v>>
      [] f[1] = "const" -> f[2]
      [] f[1] = "pair_with" -> PairV(f[2], v)
      [] f[1] = "_second" -> second(v)
      [] f[1] = "_first" -> first(v)

\* the two messages joined in the wrong order
expect_swapped(e1, e2) == e2 \o " or " \o e1

\* _expect(e2) of Parser.__or__, with r1._expected captured as e1
expect(e1, e2) == e1 \o " or " \o e2

Result_map(r, f) ==
    IF is_ok(r) THEN Result_ok(Apply(f, r.value), r.remaining) ELSE r

Result_map_expected(r, e1) ==
    IF is_ok(r) THEN r ELSE Result_err(expect(e1, r.expected), r.actual)

---------------------------------------------------------------------------
(* The primitive parsers *)

the_letter_a(text) ==
    IF text = <<>> THEN Raise("IndexError")
    ELSE IF text[1] = "a" THEN Result_ok(Unit, SliceFrom(text, 1))
    ELSE Result_err("'a'", text)

string(expected, text) ==
    IF startswith(text, expected)
    THEN Result_ok(Unit, SliceFrom(text, Len(expected)))
    ELSE Result_err("'" \o Str(expected) \o "'", text)

skip_whitespace(text) == Result_ok(Unit, lstrip(text, WhitespaceChars))

\* the while loop of integer, from the state (value, pos); pos counts from 0
RECURSIVE integer_loop(_, _, _)
integer_loop(text, value, pos) ==
    IF pos < Len(text) /\ isdigit(text[pos + 1])
    THEN integer_loop(text, (value * 10) + (ord(text[pos + 1]) - ord("0")), pos + 1)
    ELSE Result_ok(IntV(value), SliceFrom(text, pos))

integer(text) ==
    IF text = <<>> \/ ~isdigit(text[1])
    THEN Result_err("an integer", text)
    ELSE integer_loop(text, 0, 0)

---------------------------------------------------------------------------
(* class Parser: the objects *)

TheLetterA == <<"the_letter_a">>
String(expected) == <<"string", expected>>
SkipWhitespace == <<"skip_whitespace">>
Integer == <<"integer">>

\* ParserRef.get(): Parser(self), a parser that calls the cell
View == <<"ref">>

\* no attribute _p yet
Unset == <<"unset">>

Parser_map(self, f) == <<"map", self, f>>

Parser_retn(self, v) == <<"retn", self, v>>

Parser_mul(self, p2) == <<"mul", self, p2>>

Parser_or(self, p2) == <<"or", self, p2>>

Parser_before(self, p2) == Parser_map(Parser_mul(self, p2), <<"_second">>)

Parser_then(self, p2) == Parser_map(Parser_mul(self, p2), <<"_first">>)

\* `return mapped`: the name is not defined, the method raises NameError
Parser_flat_map(self, f) == Raise("NameError")

---------------------------------------------------------------------------
(* class Parser: invocation *)

RECURSIVE Call(_, _)

\* _mapped of Parser.map
map_mapped(self, f, text) ==
    LET r == Call(self, text) IN
    IF raised(r) THEN r ELSE Result_map(r, f)

\* _mapped of Parser.retn
retn_mapped(self, v, text) ==
    LET r == Call(self, text) IN
    IF raised(r) THEN r ELSE Result_map(r, <<"const", v>>)

\* _step2 of Parser.__mul__
step2(p2, v1, r1) ==
    LET r == Call(p2, r1) IN
    IF raised(r) THEN r ELSE Result_map(r, <<"pair_with", v1>>)

\* Result.flat_map(_step2), with p2 captured by _step2
Result_flat_map(r, p2) ==
    IF is_ok(r) THEN step2(p2, r.value, r.remaining) ELSE r

\* p2 invoked on the original input instead of the remaining text
seq_same_input(self, p2, text) ==
    LET r == Call(self, text) IN
    IF raised(r) THEN r
    ELSE IF is_ok(r) THEN step2(p2, r.value, text) ELSE r

\* _seq of Parser.__mul__
seq(self, p2, text) ==
    LET r == Call(self, text) IN
    IF raised(r) THEN r ELSE Result_flat_map(r, p2)

\* p2 invoked where the first parser stopped, not on the original input
or_no_backtrack(self, p2, text) ==
    LET r1 == Call(self, text) IN
    IF raised(r1) THEN r1
    ELSE IF is_ok(r1) THEN r1
    ELSE LET r2 == Call(p2, r1.actual) IN
         IF raised(r2) THEN r2 ELSE Result_map_expected(r2, r1.expected)

\* _or of Parser.__or__
or(self, p2, text) ==
    LET r1 == Call(self, text) IN
    IF raised(r1) THEN r1
    ELSE IF is_ok(r1) THEN r1
    ELSE LET r2 == Call(p2, text) IN
         IF raised(r2) THEN r2 ELSE Result_map_expected(r2, r1.expected)

\* ParserRef.__call__: self._p(input)
ParserRef_call(text) ==
    IF ref = Unset THEN Raise("AttributeError") ELSE Call(ref, text)

\* Parser.__call__: self._parse(input)
Call(p, text) ==
    CASE p[1] = "the_letter_a" -> the_letter_a(text)
      [] p[1] = "string" -> string(p[2], text)
      [] p[1] = "skip_whitespace" -> skip_whitespace(text)
      [] p[1] = "integer" -> integer(text)
      [] p[1] = "ref" -> ParserRef_call(text)
      [] p[1] = "map" -> map_mapped(p[2], p[3], text)
      [] p[1] = "retn" -> retn_mapped(p[2], p[3], text)
      [] p[1] = "mul" -> seq(p[2], p[3], text)
      [] p[1] = "or" -> or(p[2], p[3], text)

-------------------------------------------------------------------------------------------------------------------------------------------------
(* The session: a grammar is built with the combinator methods, then       *)
(* invoked on the input text                                               *)

\* string(expected) for the literals the grammars use
StringArgs == {<<"b">>}

Primitives ==
    {TheLetterA, SkipWhitespace, Integer} \cup {String(e) : e \in StringArgs}

\* the parsers a session starts from: the primitives, and the product of
\* test_mul, whose failure on "ab" is positioned after the first letter
Grammars == Primitives \cup {Parser_mul(TheLetterA, TheLetterA)}

\* the functions a caller maps over a parser
Fns == {<<"fn", "f">>}

\* the functions a caller binds with flat_map: <<"k", q>> is lambda v, r: q
BindFns == {<<"k", Integer>>}

\* the constants a caller gives to retn
RetnValues == {IntV(1)}

\* the parsers a forward reference is bound to: two primitives, and the
\* recursive grammar  g = the_letter_a.before(ref.get()) | integer
BindTargets ==
    {TheLetterA, Integer, Parser_or(Parser_before(TheLetterA, View), Integer)}

NoResult == [tag |-> "none"]

\* a method returned the new parser q
Built(name, a, q) ==
    /\ parser' = q
    /\ op' = name
    /\ arg' = a
    /\ result' = NoResult
    /\ exc' = "none"
    /\ nops' = nops + 1
    /\ UNCHANGED <<ref, input>>

Init ==
    /\ parser \in Grammars
    /\ ref = Unset
    /\ op = "init"
    /\ arg = <<>>
    /\ input \in Texts
    /\ result = NoResult
    /\ exc = "none"
    /\ nops = 0

Map ==
    /\ nops < MaxOps
    /\ \E f \in Fns : Built("map", f, Parser_map(parser, f))

Retn ==
    /\ nops < MaxOps
    /\ \E v \in RetnValues : Built("retn", v, Parser_retn(parser, v))

Mul ==
    /\ nops < MaxOps
    /\ \E p2 \in Primitives : Built("mul", p2, Parser_mul(parser, p2))

Or ==
    /\ nops < MaxOps
    /\ \E p2 \in Primitives : Built("or", p2, Parser_or(parser, p2))

Before ==
    /\ nops < MaxOps
    /\ \E p2 \in Primitives : Built("before", p2, Parser_before(parser, p2))

Then ==
    /\ nops < MaxOps
    /\ \E p2 \in Primitives : Built("then", p2, Parser_then(parser, p2))

\* parser.flat_map(f): the method raises, the session keeps the parser it had
FlatMap ==
    /\ nops < MaxOps
    /\ result = NoResult
    /\ \E f \in BindFns :
         LET q == Parser_flat_map(parser, f) IN
         /\ op' = "flat_map"
         /\ arg' = f
         /\ exc' = q.exc
         /\ UNCHANGED <<parser, ref, input, result, nops>>

\* parser(input)
Invoke ==
    LET r == Call(parser, input) IN
    /\ result' = r
    /\ op' = "invoke"
    /\ arg' = input
    /\ exc' = IF raised(r) THEN r.exc ELSE "none"
    /\ UNCHANGED <<parser, ref, input, nops>>

\* ref.set(p)
Set ==
    \E p \in BindTargets :
        /\ ref' = p
        /\ op' = "set"
        /\ arg' = p
        /\ exc' = "none"
        /\ UNCHANGED <<parser, input, result, nops>>

\* ref.get(): the session takes the view as its parser
Get ==
    /\ parser' = View
    /\ op' = "get"
    /\ arg' = <<>>
    /\ result' = NoResult
    /\ exc' = "none"
    /\ nops' = 0
    /\ UNCHANGED <<ref, input>>

\* grammars without forward references
Next == Map \/ Retn \/ FlatMap \/ Mul \/ Or \/ Before \/ Then \/ Invoke

Spec == Init /\ [][Next]_vars

\* the whole library, forward references included
NextRef ==
    Map \/ Retn \/ FlatMap \/ Mul \/ Or \/ Before \/ Then \/ Invoke \/ Set \/ Get

SpecRef == Init /\ [][NextRef]_vars

\* the primitive parsers alone, on text that holds a non-ASCII digit
InitWide ==
    /\ parser \in Primitives
    /\ ref = Unset
    /\ op = "init"
    /\ arg = <<>>
    /\ input \in WideTexts
    /\ result = NoResult
    /\ exc = "none"
    /\ nops = 0

SpecWide == InitWide /\ [][Invoke]_vars

---------------------------------------------------------------------------
(* The properties *)

\* parser(input) has been called and `result` is what it produced
Invoked == result # NoResult

\* the session's parser is self | p2
IsOr == parser[1] = "or"

\* the session's parser is self * p2
IsMul == parser[1] = "mul"

\* the session's parser is self.before(p2) or self.then(p2)
IsProjection ==
    /\ parser[1] = "map"
    /\ parser[3] \in {<<"_second">>, <<"_first">>}
    /\ parser[2][1] = "mul"

\* C1, as claimed: whenever p1 fails on the input, (p1 | p2)(input) is
\* exactly what p2(input) is.
C1_OrElseEqualsSecond ==
    (Invoked /\ IsOr) =>
        LET r1 == Call(parser[2], input)
            r2 == Call(parser[3], input)
        IN  is_err(r1) => result = r2

\* C1, amended: whenever p1 fails on the input with Failure(e1, a1),
\* (p1 | p2)(input) is p2(input) itself when p2(input) is a Success, and
\* when p2(input) is Failure(e2, a2) it is a Failure with the same actual a2
\* whose expected is e1, " or ", e2: p2 has run on the original input, and
\* only the message differs from p2's own.
C1_OrElseBacktracks ==
    (Invoked /\ IsOr) =>
        LET r1 == Call(parser[2], input)
            r2 == Call(parser[3], input)
        IN  is_err(r1) =>
              /\ is_ok(r2) => result = r2
              /\ is_err(r2) =>
                    /\ is_err(result)
                    /\ result.actual = r2.actual
                    /\ result.expected = r1.expected \o " or " \o r2.expected

\* p1 failed after consuming part of the input, and p2 succeeded on all of it
C1_Witness ==
    /\ Invoked /\ IsOr
    /\ LET r1 == Call(parser[2], input) IN
         /\ is_err(r1)
         /\ r1.actual # input
         /\ is_ok(result)
         /\ result.remaining # r1.actual

\* C2: the_letter_a returns a Result on every input, the empty text
\* included: Success((), input[1:]) when the input starts with 'a', and
\* Failure("'a'", input) otherwise.
C2_TheLetterATotal ==
    (Invoked /\ parser = TheLetterA) =>
        result = IF input # <<>> /\ input[1] = "a"
                 THEN Result_ok(Unit, Tail(input))
                 ELSE Result_err("'a'", input)

\* C3: once the forward reference is bound its binding never changes, and
\* every later set raises.
C3_BoundAtMostOnce ==
    [][(ref # Unset) => (ref' = ref /\ (op' = "set" => exc' # "none"))]_vars

\* what the claim says p.flat_map(f) does on s
BindContract(p, f, s) ==
    LET r == Call(p, s) IN
    IF is_ok(r) THEN Call(f[2], r.remaining) ELSE r

\* C4: p.flat_map(f) is a parser; invoked on the input it returns p(input)
\* when that is a Failure, and otherwise the Result of the parser
\* f(value, remaining) invoked on remaining.
C4_FlatMapBinds ==
    (op = "flat_map") =>
        /\ exc = "none"
        /\ parser[1] = "flat_map"
        /\ Call(parser, input) = BindContract(parser[2], arg, input)

\* C5: (p1 * p2)(input) is p1(input) when that is a Failure; when p1(input)
\* is Success(v1, r1) it is p2(r1) when that is a Failure, its actual left
\* relative to r1, and Success((v1, v2), r2) when p2(r1) is Success(v2, r2).
C5_ProductSequencing ==
    (Invoked /\ IsMul) =>
        LET r1 == Call(parser[2], input) IN
        /\ is_err(r1) => result = r1
        /\ is_ok(r1) =>
             LET r2 == Call(parser[3], r1.remaining) IN
             /\ is_err(r2) => result = r2
             /\ is_ok(r2) =>
                  result = Result_ok(PairV(r1.value, r2.value), r2.remaining)

\* p1 consumed a prefix and p2 failed on the rest: the failure is positioned
\* after p1's match
C5_Witness ==
    /\ Invoked /\ IsMul
    /\ LET r1 == Call(parser[2], input) IN
         /\ is_ok(r1)
         /\ r1.remaining # input
         /\ is_err(result)
         /\ result.actual = r1.remaining

\* C6: whenever a parser built from the primitives with map, retn, product,
\* or-else, before and then succeeds, the remaining text is a suffix of the
\* input and no longer than it.
C6_SuffixMonotonic ==
    (Invoked /\ is_ok(result)) =>
        /\ IsSuffix(result.remaining, input)
        /\ Len(result.remaining) <= Len(input)

\* a combined parser succeeded, consuming some of the input and not all
C6_Witness ==
    /\ Invoked /\ is_ok(result)
    /\ nops > 0
    /\ result.remaining # <<>>
    /\ Len(result.remaining) < Len(input)

\* C7: a parser invoked again on the same input, whatever was done in
\* between, produces the Result it produced before.
C7_Deterministic ==
    [][(/\ op' = "invoke"
        /\ result.tag \in {"ok", "err"}
        /\ parser' = parser
        /\ input' = input) => result' = result]_vars

\* the ASCII decimal digits '0'..'9'
AsciiDigit(c) == c \in {"0", "1", "2", "3", "4", "5", "6", "7", "8", "9"}

\* the length of the maximal leading run of ASCII decimal digits
RECURSIVE AsciiRun(_)
AsciiRun(text) ==
    IF text # <<>> /\ AsciiDigit(Head(text)) THEN 1 + AsciiRun(Tail(text)) ELSE 0

DigitValue(c) ==
    CASE c = "0" -> 0 [] c = "1" -> 1 [] c = "2" -> 2 [] c = "3" -> 3
      [] c = "4" -> 4 [] c = "5" -> 5 [] c = "6" -> 6 [] c = "7" -> 7
      [] c = "8" -> 8 [] c = "9" -> 9

\* the base-10 value of a run of digits
RECURSIVE Decimal(_)
Decimal(digits) ==
    IF digits = <<>> THEN 0
    ELSE Decimal(SubSeq(digits, 1, Len(digits) - 1)) * 10
         + DigitValue(digits[Len(digits)])

\* C8: integer succeeds exactly on input that begins with an ASCII decimal
\* digit, consuming the maximal leading run of such digits and returning its
\* base-10 value; on any other input it is Failure("an integer", input).
C8_IntegerAsciiDigits ==
    (Invoked /\ parser = Integer) =>
        LET n == AsciiRun(input) IN
        result = IF n > 0
                 THEN Result_ok(IntV(Decimal(SubSeq(input, 1, n))),
                                SliceFrom(input, n))
                 ELSE Result_err("an integer", input)

\* C9: when p1(input) is Failure(e1, a1) and p2(input) is Failure(e2, a2),
\* (p1 | p2)(input) is Failure(e1 + " or " + e2, a2); when p1(input) is a
\* Success, (p1 | p2)(input) is that Success.
C9_OrFailureMerge ==
    (Invoked /\ IsOr) =>
        LET r1 == Call(parser[2], input)
            r2 == Call(parser[3], input)
        IN  /\ (is_err(r1) /\ is_err(r2)) =>
                  result = Result_err(r1.expected \o " or " \o r2.expected,
                                      r2.actual)
            /\ is_ok(r1) => result = r1

\* both branches failed and the message names both, the first branch first
C9_Witness ==
    /\ Invoked /\ IsOr
    /\ is_err(result)
    /\ result.expected = "'a' or 'b'"
    /\ result.actual = input

\* C10: p1.before(p2), p1.then(p2) and p1 * p2 succeed on the same inputs;
\* on success the three leave the same remaining text, before carrying
\* p2's value and then carrying p1's; on failure before and then return the
\* product's Failure unchanged.
C10_BeforeThenDuality ==
    (Invoked /\ IsProjection) =>
        LET p1 == parser[2][2]
            p2 == parser[2][3]
            product == Call(Parser_mul(p1, p2), input)
            before == IF parser[3] = <<"_second">> THEN result
                      ELSE Call(Parser_before(p1, p2), input)
            then == IF parser[3] = <<"_first">> THEN result
                    ELSE Call(Parser_then(p1, p2), input)
        IN  /\ is_ok(before) <=> is_ok(product)
            /\ is_ok(then) <=> is_ok(product)
            /\ is_ok(product) =>
                 LET r1 == Call(p1, input)
                     r2 == Call(p2, r1.remaining)
                 IN  /\ before.remaining = product.remaining
                     /\ then.remaining = product.remaining
                     /\ before.value = r2.value
                     /\ then.value = r1.value
            /\ is_err(product) => (before = product /\ then = product)

\* a before-parser succeeded carrying an integer that followed a letter
C10_Witness ==
    /\ Invoked /\ IsProjection
    /\ op = "invoke"
    /\ parser[3] = <<"_second">>
    /\ is_ok(result)
    /\ result.value = IntV(12)
    /\ Call(parser[2][2], input) = Result_ok(Unit, Tail(input))

====
